---- MODULE Spec2Model ----
(***************************************************************************)
(* A model of src/src/datasets/datasets.py: the TrackML streaming dataset  *)
(* (event-range discovery, per-worker range split, track assembly, the     *)
(* conformal-fit quality filter) and the two batch collate functions.      *)
(*                                                                         *)
(* Numbers that are floats in the program are integers here, in units of   *)
(* half the default tolerance (0.005): the default tolerance 0.01 is 2.    *)
(* Strings are sequences of character codes.  Tensors are modelled by      *)
(* their shapes, and boolean masks by their entries.                       *)
(***************************************************************************)
EXTENDS Integers, Sequences, FiniteSets, TLC

VARIABLES
    files,       \* os.listdir(data_path): the directory listing (set of names)
    start,       \* self.start
    end,         \* self.end
    ctor,        \* the constructor: "new", "ready" or "FileNotFoundError"
    num_workers, \* worker_info.num_workers; 0 when get_worker_info() is None
    pc,          \* per worker: position of its generator (__iter__)
    iter_start,  \* per worker: iter_start
    iter_end,    \* per worker: iter_end
    cur,         \* per worker: the next value of i in range(iter_start, iter_end)
    loaded,      \* per worker: the event ids handed to load_event, in order
    failed,      \* per worker: the event ids on which load_event raised
    pending,     \* per worker: the groups of `grouped` not yet visited
    conf_pt,     \* per worker: conf_pt of the group being visited, or "none"
    yielded,     \* per worker: the tracks yielded so far, in order
    records,     \* an event's record sets handed to the assembly
    tracks,      \* the groups the assembly made of them
    source,      \* the data module the batch is made for
    batch,       \* the list of samples handed to a collate function
    out          \* the collate function's result

vars == <<files, start, end, ctor, num_workers, pc, iter_start, iter_end, cur,
          loaded, failed, pending, conf_pt, yielded, records, tracks,
          source, batch, out>>

rangeVars  == <<files, ctor>>
streamVars == <<num_workers, pc, iter_start, iter_end, cur, loaded, failed,
                pending, conf_pt, yielded>>
asmVars    == <<records, tracks>>
batchVars  == <<source, batch, out>>

----------------------------------------------------------------------------
(* Bounds of the model. *)

MaxStart   == 1    \* partition: the range starts in 0..MaxStart
MaxLen     == 5    \* partition: the range holds 1..MaxLen event ids
MaxWorkers == 4    \* partition: up to MaxWorkers workers

(* Helpers. *)

\* a float: finite (value, in units of 0.005), "inf" or "nan"; "none": unset
NoFit == [kind |-> "none", value |-> 0]
Finite(v) == [kind |-> "finite", value |-> v]
Inf == [kind |-> "inf", value |-> 0]
NaN == [kind |-> "nan", value |-> 0]
\* in place of a float: the computation raised
Raised == [kind |-> "raise", value |-> 0]

Min(a, b) == IF a < b THEN a ELSE b
Max(a, b) == IF a > b THEN a ELSE b

RECURSIVE SeqSum(_)
SeqSum(s) == IF s = <<>> THEN 0 ELSE Head(s) + SeqSum(Tail(s))

\* range(a, b) as a sequence: empty when b <= a
PyRange(a, b) == [k \in 1..Max(b - a, 0) |-> a + k - 1]

SeqToSet(s) == {s[k] : k \in 1..Len(s)}

----------------------------------------------------------------------------
(* TrackMLIterableDataset2.__iter__: the split of [start, end) over workers *)

WorkerIds == 0..(MaxWorkers - 1)

\* the workers that exist: one consumer when worker_info is None
Workers == IF num_workers = 0 THEN {0} ELSE 0..(num_workers - 1)

\* int(math.ceil(a / float(b))) for a >= 0, b >= 1
CeilDiv(a, b) == (a + b - 1) \div b

per_worker_floor_plus_one == (end - start) \div num_workers + 1

per_worker == CeilDiv(end - start, num_workers)

IterStartOf(w) ==
    IF num_workers = 0 THEN start ELSE start + w * per_worker

IterEndNoMin(w) ==
    IF num_workers = 0 THEN end ELSE IterStartOf(w) + per_worker

IterEndOf(w) ==
    IF num_workers = 0 THEN end ELSE Min(IterStartOf(w) + per_worker, end)

\* lines 230-239: the generator starts and fixes its sub-range
IterStart(w) ==
    /\ ctor = "ready"
    /\ w \in Workers
    /\ pc[w] = "idle"
    /\ pc' = [pc EXCEPT ![w] = "iterating"]
    /\ iter_start' = [iter_start EXCEPT ![w] = IterStartOf(w)]
    /\ iter_end' = [iter_end EXCEPT ![w] = IterEndOf(w)]
    /\ cur' = [cur EXCEPT ![w] = IterStartOf(w)]
    /\ UNCHANGED <<files, start, end, ctor, num_workers, loaded, failed, pending,
                   conf_pt, yielded, records, tracks, source, batch, out>>

\* line 241 alone: one step of `for i in range(iter_start, iter_end)`
RangeStep(w) ==
    /\ w \in Workers
    /\ pc[w] = "iterating"
    /\ cur[w] < iter_end[w]
    /\ loaded' = [loaded EXCEPT ![w] = Append(@, cur[w])]
    /\ cur' = [cur EXCEPT ![w] = @ + 1]
    /\ UNCHANGED <<files, start, end, ctor, num_workers, pc, iter_start,
                   iter_end, failed, pending, conf_pt, yielded, records,
                   tracks, source, batch, out>>

\* line 241: range(iter_start, iter_end) is used up, the generator returns
Exhaust(w) ==
    /\ w \in Workers
    /\ pc[w] = "iterating"
    /\ pending[w] = <<>>
    /\ conf_pt[w] = NoFit
    /\ cur[w] >= iter_end[w]
    /\ pc' = [pc EXCEPT ![w] = "exhausted"]
    /\ UNCHANGED <<files, start, end, ctor, num_workers, iter_start, iter_end,
                   cur, loaded, failed, pending, conf_pt, yielded, records,
                   tracks, source, batch, out>>

NoStream ==
    /\ pc = [w \in Workers |-> "idle"]
    /\ iter_start = [w \in Workers |-> 0]
    /\ iter_end = [w \in Workers |-> 0]
    /\ cur = [w \in Workers |-> 0]
    /\ loaded = [w \in Workers |-> <<>>]
    /\ failed = [w \in Workers |-> {}]
    /\ pending = [w \in Workers |-> <<>>]
    /\ conf_pt = [w \in Workers |-> NoFit]
    /\ yielded = [w \in Workers |-> <<>>]

NoRecords == [particles |-> {}, truth |-> <<>>, hits |-> {}]
NoTracks == [done |-> FALSE, groups |-> <<>>]
NoAssembly == records = NoRecords /\ tracks = NoTracks
NoOut == [done |-> FALSE, x |-> <<>>, mask |-> <<>>, target |-> <<>>]
NoSource == [module |-> "none", pt_shape |-> <<>>]
NoBatch == source = NoSource /\ batch = <<>> /\ out = NoOut

InitPartition ==
    /\ files = {}
    /\ ctor = "ready"
    /\ start \in 0..MaxStart
    /\ end \in (start + 1)..(start + MaxLen)
    /\ num_workers \in 0..MaxWorkers
    /\ NoStream /\ NoAssembly /\ NoBatch

NextPartition == \E w \in WorkerIds : IterStart(w) \/ RangeStep(w) \/ Exhaust(w)

SpecPartition == InitPartition /\ [][NextPartition]_vars

----------------------------------------------------------------------------
(* The split of the range over the workers. *)

AllExhausted == \A w \in Workers : pc[w] = "exhausted"

\* how often worker w iterated event id e
TimesLoaded(w, e) == Cardinality({k \in 1..Len(loaded[w]) : loaded[w][k] = e})

SubRangeLen(w) == Max(iter_end[w] - iter_start[w], 0)

Started(w) == w \in Workers /\ pc[w] # "idle"

\* C1: the sub-ranges of the workers are pairwise disjoint and lie in
\* [start, end); once every worker is through, every id of [start, end) was
\* iterated by exactly one worker, exactly once, and no other id by anyone;
\* a sole consumer (no worker info, or one worker) has the full range.
C1_PartitionExact ==
    /\ \A w \in Workers : \A k \in 1..Len(loaded[w]) :
          /\ loaded[w][k] >= start /\ loaded[w][k] < end
          /\ \A v \in Workers \ {w} : TimesLoaded(v, loaded[w][k]) = 0
          /\ TimesLoaded(w, loaded[w][k]) = 1
    /\ \A w \in Workers : \A v \in Workers :
          (Started(w) /\ Started(v) /\ w # v) =>
             SeqToSet(PyRange(iter_start[w], iter_end[w])) \cap
             SeqToSet(PyRange(iter_start[v], iter_end[v])) = {}
    /\ AllExhausted =>
          \A e \in start..(end - 1) :
             SeqSum([w \in 1..Cardinality(Workers) |-> TimesLoaded(w - 1, e)]) = 1
    /\ (num_workers <= 1 /\ Started(0)) =>
          (iter_start[0] = start /\ iter_end[0] = end)

\* C1 witness: four workers went through a range of five ids
C1_Witness ==
    /\ num_workers = 4 /\ end - start = 5 /\ AllExhausted
    /\ loaded[2] = <<start + 4>> /\ loaded[3] = <<>>

\* the number of consumers the range is split over
Consumers == Max(num_workers, 1)

Span == CeilDiv(end - start, Consumers)

\* C2 as stated: every sub-range has at most ceil((end-start)/N) ids, every
\* worker but the last has exactly that many, and the last has fewer only
\* when N does not divide end - start.
C2_OnlyLastShort ==
    \A w \in Workers : Started(w) =>
        /\ SubRangeLen(w) <= Span
        /\ (w # Consumers - 1) => SubRangeLen(w) = Span
        /\ SubRangeLen(w) < Span =>
              (w = Consumers - 1 /\ (end - start) % Consumers # 0)

\* C2 amended: every sub-range has at most ceil((end-start)/N) ids; the
\* workers whose whole span fits in the range have exactly that many; a
\* sub-range is shorter only when N does not divide end - start, and every
\* worker after a shorter one has an empty sub-range.
C2_ShortOnlyAtTail ==
    \A w \in Workers : Started(w) =>
        /\ SubRangeLen(w) <= Span
        /\ ((w + 1) * Span <= end - start) => SubRangeLen(w) = Span
        /\ SubRangeLen(w) < Span =>
              /\ (end - start) % Consumers # 0
              /\ \A v \in Workers : (Started(v) /\ v > w) => SubRangeLen(v) = 0

\* C2 witness: five ids over four workers: 2, 2, 1 and none
C2_Witness ==
    /\ num_workers = 4 /\ end - start = 5
    /\ \A w \in Workers : Started(w)
    /\ SubRangeLen(0) = 2 /\ SubRangeLen(1) = 2
    /\ SubRangeLen(2) = 1 /\ SubRangeLen(3) = 0

----------------------------------------------------------------------------
(* TrackMLIterableDataset2._event_range: the range of event ids on disk *)

MaxDigits == 2   \* an id is written with 1..MaxDigits digits
MaxListed == 2   \* the directory holds the files of up to MaxListed events

Prefix == <<101, 118, 101, 110, 116>>                \* "event"
Suffixes == {<<45, 104, 105, 116, 115>>,             \* "-hits"
             <<45, 116, 114, 117, 116, 104>>}        \* "-truth"
DigitChars == {48, 49, 50}                            \* "0", "1", "2"

DigitStrings == UNION {[1..n -> DigitChars] : n \in 1..MaxDigits}

FileName(digits, suffix) == Prefix \o digits \o suffix

\* str.__lt__: the first differing character decides, a proper prefix is less
RECURSIVE LexLess(_, _)
LexLess(a, b) ==
    IF b = <<>> THEN FALSE
    ELSE IF a = <<>> THEN TRUE
    ELSE IF Head(a) # Head(b) THEN Head(a) < Head(b)
    ELSE LexLess(Tail(a), Tail(b))

\* list.sort() of a set of distinct strings
RECURSIVE SortedList(_)
SortedList(S) ==
    IF S = {} THEN <<>>
    ELSE LET m == CHOOSE x \in S : \A y \in S \ {x} : LexLess(x, y)
         IN <<m>> \o SortedList(S \ {m})

\* s.split('-')[0]: the characters before the first '-'
RECURSIVE BeforeDash(_)
BeforeDash(s) ==
    IF s = <<>> \/ Head(s) = 45 THEN <<>>
    ELSE <<Head(s)>> \o BeforeDash(Tail(s))

\* s[5:]
DropFive(s) == SubSeq(s, 6, Len(s))

\* int(s) of a string of decimal digits
RECURSIVE ParseInt(_)
ParseInt(s) ==
    IF s = <<>> THEN 0
    ELSE 10 * ParseInt(SubSeq(s, 1, Len(s) - 1)) + (s[Len(s)] - 48)

\* int(name.split('-')[0][5:])
EventIdOf(name) == ParseInt(DropFive(BeforeDash(name)))

\* lines 205-213: __init__ sets start and end from the sorted listing, or
\* _event_range raises on an empty one
Construct ==
    /\ ctor = "new"
    /\ LET sorted == SortedList(files)
       IN IF sorted # <<>>
          THEN /\ start' = EventIdOf(sorted[1])
               /\ end' = EventIdOf(sorted[Len(sorted)]) + 1
               /\ ctor' = "ready"
          ELSE /\ ctor' = "FileNotFoundError"
               /\ UNCHANGED <<start, end>>
    /\ UNCHANGED <<files, streamVars, asmVars, batchVars>>

InitRange ==
    /\ \E D \in SUBSET DigitStrings :
          /\ Cardinality(D) <= MaxListed
          /\ files = {FileName(d, s) : d \in D, s \in Suffixes}
    /\ ctor = "new"
    /\ start = 0 /\ end = 0 /\ num_workers = 0
    /\ NoStream /\ NoAssembly /\ NoBatch

NextRange == Construct

SpecRange == InitRange /\ [][NextRange]_vars

ListedIds == {EventIdOf(f) : f \in files}

\* C3: the range discovered from a non-empty listing is
\* [min(id), max(id) + 1) over the ids of the listed names.
C3_RangeIsMinMax ==
    (ctor = "ready" /\ files # {}) =>
        /\ \A e \in ListedIds : start <= e /\ e < end
        /\ start \in ListedIds
        /\ (end - 1) \in ListedIds

----------------------------------------------------------------------------
(* TrackMLIterableDataset2.__iter__, lines 246-260: from an event's record  *)
(* sets to its groups.  particles is a set of rows keyed by particle_id,    *)
(* hits a set of hit ids, truth a sequence of rows in file order; a truth   *)
(* row carries the position (tx, ty) as one value xy (tz is read by no      *)
(* computation).                                                            *)

MinHits == 5       \* particles['nhits'] >= 5

ParticleIds == {1, 2}

\* np.sqrt of a perfect square
Sqrt(n) == CHOOSE r \in 0..n : r * r = n

\* line 247: particles[particles['nhits'] >= 5]
KeptParticles(rec) == {p \in rec.particles : p.nhits >= MinHits}

ParticleRow(rec, pid) ==
    CHOOSE p \in KeptParticles(rec) : p.particle_id = pid

\* lines 248-251: the two inner joins, in the order of the truth rows, and
\* the pT column
MergedRows(rec) ==
    LET keptIds == {p.particle_id : p \in KeptParticles(rec)}
        keep(r) == r.particle_id \in keptIds /\ r.hit_id \in rec.hits
        joined == SelectSeq(rec.truth, keep)
    IN [k \in 1..Len(joined) |->
          LET p == ParticleRow(rec, joined[k].particle_id)
          IN [hit_id |-> joined[k].hit_id,
              particle_id |-> joined[k].particle_id,
              xy |-> joined[k].xy,
              pT |-> Sqrt(p.px * p.px + p.py * p.py),
              pz |-> p.pz]]

RowsOf(merged, pid) ==
    LET mine(r) == r.particle_id = pid IN SelectSeq(merged, mine)

FirstRowOf(merged, pid) ==
    CHOOSE k \in 1..Len(merged) :
        /\ merged[k].particle_id = pid
        /\ \A j \in 1..(k - 1) : merged[j].particle_id # pid

\* lines 256-257 and 268: one group as the loop body sees it.  `first` is
\* the index in merged_df of the particle's first row.
GroupOf(merged, pid) ==
    LET g == RowsOf(merged, pid)
    IN [particle_id |-> pid,
        inputs |-> [k \in 1..Len(g) |-> g[k].xy],
        target |-> <<g[1].pT, g[1].pz>>,
        first |-> FirstRowOf(merged, pid)]

RECURSIVE AscendingKeys(_)
AscendingKeys(S) ==
    IF S = {} THEN <<>>
    ELSE LET m == CHOOSE x \in S : \A y \in S : x <= y
         IN <<m>> \o AscendingKeys(S \ {m})

RECURSIVE KeysAsMet(_, _)
KeysAsMet(merged, seen) ==
    IF merged = <<>> THEN <<>>
    ELSE IF Head(merged).particle_id \in seen
         THEN KeysAsMet(Tail(merged), seen)
         ELSE <<Head(merged).particle_id>> \o
              KeysAsMet(Tail(merged), seen \cup {Head(merged).particle_id})

\* groupby(..., sort=False): the groups in the order their keys are met
GroupedAsMet(rec) ==
    LET merged == MergedRows(rec)
        keys == KeysAsMet(merged, {})
    IN [k \in 1..Len(keys) |-> GroupOf(merged, keys[k])]

\* lines 253-255: merged_df.groupby('particle_id') iterates the groups in
\* ascending key order (sort=True is the default)
Grouped(rec) ==
    LET merged == MergedRows(rec)
        keys == AscendingKeys({merged[k].particle_id : k \in 1..Len(merged)})
    IN [k \in 1..Len(keys) |-> GroupOf(merged, keys[k])]

(* The assembly alone, on arbitrary small record sets. *)

MaxRows == 5       \* the truth table holds up to MaxRows rows

TruthIds == ParticleIds \cup {0}     \* 0: a hit of no listed particle

ParticleTables ==
    {{[particle_id |-> p, nhits |-> n[p], px |-> 3, py |-> 4, pz |-> 1] :
         p \in P} : P \in SUBSET ParticleIds,
                    n \in [ParticleIds -> {MinHits - 1, MinHits}]}

\* truth row k describes hit k, at a position of its own
TruthTables ==
    UNION {{[k \in 1..n |-> [hit_id |-> k, particle_id |-> owner[k], xy |-> k]] :
               owner \in [1..n -> TruthIds]} : n \in 0..MaxRows}

\* all the hits of truth, or all but one
HitTables(truth) ==
    {1..Len(truth)} \cup {(1..Len(truth)) \ {h} : h \in 1..Len(truth)}

\* lines 247-255 on one event's record sets
Assemble ==
    /\ ~tracks.done
    /\ tracks' = [done |-> TRUE, groups |-> Grouped(records)]
    /\ UNCHANGED <<files, start, end, ctor, streamVars, records, batchVars>>

InitAssemble ==
    /\ \E pt \in ParticleTables, tt \in TruthTables :
          \E ht \in HitTables(tt) :
             records = [particles |-> pt, truth |-> tt, hits |-> ht]
    /\ tracks = NoTracks
    /\ files = {} /\ ctor = "ready" /\ start = 0 /\ end = 0 /\ num_workers = 0
    /\ NoStream /\ NoBatch

NextAssemble == Assemble

SpecAssemble == InitAssemble /\ [][NextAssemble]_vars

\* the rows of particle pid joined through truth and hits
JoinedCount(pid) ==
    Cardinality({k \in 1..Len(records.truth) :
                    /\ records.truth[k].particle_id = pid
                    /\ records.truth[k].hit_id \in records.hits})

ListedParticles == {p.particle_id : p \in records.particles}

TracksOf(pid) ==
    {k \in 1..Len(tracks.groups) : tracks.groups[k].particle_id = pid}

\* C5: no track is made for a particle with fewer than 5 joined rows, every
\* listed particle with at least 5 joined rows gets exactly one track, and a
\* track's position sequence is as long as its particle's joined-row count.
C5_TracksHaveFiveHits ==
    tracks.done =>
        /\ \A k \in 1..Len(tracks.groups) :
              LET t == tracks.groups[k]
              IN /\ JoinedCount(t.particle_id) >= MinHits
                 /\ Len(t.inputs) = JoinedCount(t.particle_id)
        /\ \A pid \in ListedParticles :
              JoinedCount(pid) >= MinHits => Cardinality(TracksOf(pid)) = 1

----------------------------------------------------------------------------
(* TrackMLIterableDataset2.__iter__, lines 241-269: one worker's stream.    *)
(* The generator is followed in steps: loading and grouping an event, the   *)
(* fit of the next group, the filter on it.                                 *)

tolerance == 2     \* tolerance=0.01, in units of 0.005

StreamStart == 1       \* stream: the first event id on disk
MaxEvents == 3         \* stream: the range holds 1..MaxEvents event ids

\* stream: no worker info (0), or two workers
StreamWorkerCounts == {0, 2}

\* the values a fit that returns may return: with the target pT at 5, an
\* error of 2 from below, of 1, of 2 from above, and inf (nan is compared
\* and rejected like inf)
Estimates == {Finite(3), Finite(4), Finite(7), Inf}

\* lines 215-227.  np.polyfit(u, v, 2, cov=True) is numpy's: with at most 3
\* points it raises (the covariance cannot be scaled); with fewer than 3
\* distinct points the normal matrix is singular, and inverting it raises
\* LinAlgError or, when rounding hides the singularity, gives coefficients
\* of no meaning.  Where it returns, 0.5 / pp[2] is inf for pp[2] = 0 (numpy
\* floats do not raise) and the result is inf or nan; otherwise it is a
\* finite number.  Raised stands for the exception.
ConformalMapping(inputs) ==
    IF Len(inputs) <= 3 THEN {Raised}
    ELSE IF Cardinality(SeqToSet(inputs)) < 3 THEN {Raised} \cup Estimates
    ELSE Estimates

\* line 266: abs(conf_pt - target_tensor[0].item())
AbsError(c, truth) ==
    IF c.kind = "finite"
    THEN Finite(IF c.value >= truth THEN c.value - truth ELSE truth - c.value)
    ELSE IF c.kind = "inf" THEN Inf ELSE NaN

\* line 267 with <= for <
AcceptsAtTolerance(error) == error.kind = "finite" /\ error.value <= tolerance

\* line 267: error < self.tolerance (false for inf and for nan)
Accepts(error) == error.kind = "finite" /\ error.value < tolerance

\* lines 259-260 and 268-269: the tuple yielded for a group of event id e, by
\* the shapes of zxy and target_tensor and the entries of mask; event,
\* particle_id and first tell where it came from
TrackOf(e, g) ==
    [event |-> e, particle_id |-> g.particle_id, first |-> g.first,
     zxy |-> <<Len(g.inputs), 3>>,
     mask |-> [k \in 1..Len(g.inputs) |-> TRUE],
     target |-> <<Len(g.target)>>]

(* The events load_event may return: each listed particle has its nhits     *)
(* truth rows in one block, in file order; all hits are in hits.            *)
(*   "track": 5 rows at 3 distinct positions;                               *)
(*   "point": 5 rows at one position.                                       *)
Kinds == {"track", "point"}

NHits(kind) == MinHits

BlockXY(kind, k) == IF kind = "point" THEN 1 ELSE (k % 3) + 1

RECURSIVE TruthBlocks(_, _, _)
TruthBlocks(order, kinds, nextHit) ==
    IF order = <<>> THEN <<>>
    ELSE LET pid == Head(order)
             n == NHits(kinds[pid])
         IN [k \in 1..n |-> [hit_id |-> nextHit + k - 1, particle_id |-> pid,
                             xy |-> BlockXY(kinds[pid], k)]]
            \o TruthBlocks(Tail(order), kinds, nextHit + n)

Orders == {<<>>} \cup {<<p>> : p \in ParticleIds} \cup
          {o \in {<<p, q>> : p \in ParticleIds, q \in ParticleIds} : o[1] # o[2]}

EventOf(order, kinds) ==
    LET truth == TruthBlocks(order, kinds, 1)
    IN [particles |-> {[particle_id |-> p, nhits |-> NHits(kinds[p]),
                        px |-> 3, py |-> 4, pz |-> 1] : p \in SeqToSet(order)},
        truth |-> truth,
        hits |-> 1..Len(truth)]

StreamEvents ==
    {EventOf(order, kinds) : order \in Orders, kinds \in [ParticleIds -> Kinds]}

StreamIdle(w) ==
    /\ w \in Workers
    /\ pc[w] = "iterating"
    /\ pending[w] = <<>>
    /\ conf_pt[w] = NoFit

\* lines 241-246 with the failure swallowed: the loop goes on to the next id
LoadFailsSkipped(w) ==
    /\ StreamIdle(w)
    /\ cur[w] < iter_end[w]
    /\ loaded' = [loaded EXCEPT ![w] = Append(@, cur[w])]
    /\ failed' = [failed EXCEPT ![w] = @ \cup {cur[w]}]
    /\ cur' = [cur EXCEPT ![w] = @ + 1]
    /\ UNCHANGED <<files, start, end, ctor, num_workers, pc, iter_start,
                   iter_end, pending, conf_pt, yielded, records, tracks,
                   source, batch, out>>

\* lines 241-246: load_event raises for the next id; nothing catches it, the
\* exception leaves the generator, which is finished from then on
LoadFails(w) ==
    /\ StreamIdle(w)
    /\ cur[w] < iter_end[w]
    /\ loaded' = [loaded EXCEPT ![w] = Append(@, cur[w])]
    /\ failed' = [failed EXCEPT ![w] = @ \cup {cur[w]}]
    /\ cur' = [cur EXCEPT ![w] = @ + 1]
    /\ pc' = [pc EXCEPT ![w] = "load_error"]
    /\ UNCHANGED <<files, start, end, ctor, num_workers, iter_start, iter_end,
                   pending, conf_pt, yielded, records, tracks, source, batch, out>>

\* lines 241-255: the next id is loaded and its rows are filtered, joined
\* and grouped
LoadEvent(w) ==
    /\ StreamIdle(w)
    /\ cur[w] < iter_end[w]
    /\ \E ev \in StreamEvents :
          pending' = [pending EXCEPT ![w] = Grouped(ev)]
    /\ loaded' = [loaded EXCEPT ![w] = Append(@, cur[w])]
    /\ cur' = [cur EXCEPT ![w] = @ + 1]
    /\ UNCHANGED <<files, start, end, ctor, num_workers, pc, iter_start,
                   iter_end, failed, conf_pt, yielded, records, tracks,
                   source, batch, out>>

Visiting(w) ==
    /\ w \in Workers
    /\ pc[w] = "iterating"
    /\ pending[w] # <<>>

\* lines 255-263: the fit of the next group returns
Fit(w) ==
    /\ Visiting(w)
    /\ conf_pt[w] = NoFit
    /\ \E c \in ConformalMapping(Head(pending[w]).inputs) \ {Raised} :
          conf_pt' = [conf_pt EXCEPT ![w] = c]
    /\ UNCHANGED <<files, start, end, ctor, num_workers, pc, iter_start,
                   iter_end, cur, loaded, failed, pending, yielded,
                   records, tracks, source, batch, out>>

\* lines 255-263: the fit of the next group raises; nothing catches it, the
\* exception leaves the generator
FitRaises(w) ==
    /\ Visiting(w)
    /\ conf_pt[w] = NoFit
    /\ Raised \in ConformalMapping(Head(pending[w]).inputs)
    /\ pc' = [pc EXCEPT ![w] = "fit_error"]
    /\ UNCHANGED <<files, start, end, ctor, num_workers, iter_start, iter_end,
                   cur, loaded, failed, pending, conf_pt, yielded,
                   records, tracks, source, batch, out>>

\* lines 266-269: the filter on the group just fitted; the loop goes on
Filter(w) ==
    /\ Visiting(w)
    /\ conf_pt[w] # NoFit
    /\ LET g == Head(pending[w])
           error == AbsError(conf_pt[w], g.target[1])
           e == loaded[w][Len(loaded[w])]
       IN yielded' = [yielded EXCEPT ![w] =
                         IF Accepts(error) THEN Append(@, TrackOf(e, g))
                         ELSE @]
    /\ pending' = [pending EXCEPT ![w] = Tail(@)]
    /\ conf_pt' = [conf_pt EXCEPT ![w] = NoFit]
    /\ UNCHANGED <<files, start, end, ctor, num_workers, pc, iter_start,
                   iter_end, cur, loaded, failed, records, tracks, source, batch, out>>

Init ==
    /\ files = {}
    /\ ctor = "ready"
    /\ start = StreamStart
    /\ end \in (start + 1)..(start + MaxEvents)
    /\ num_workers \in StreamWorkerCounts
    /\ NoStream /\ NoAssembly /\ NoBatch

Next ==
    \E w \in WorkerIds :
        \/ IterStart(w)
        \/ LoadEvent(w)
        \/ LoadFails(w)
        \/ Fit(w)
        \/ FitRaises(w)
        \/ Filter(w)
        \/ Exhaust(w)

Spec == Init /\ [][Next]_vars

----------------------------------------------------------------------------
(* The stream of one worker. *)

Abs(n) == IF n < 0 THEN -n ELSE n

\* C4: the filter yields the group it is on exactly when the fitted pT is
\* within the tolerance of the target pT, strictly: a step that ends the
\* visit of a group appends its track to the worker's output if
\* |conf_pt - target pT| < tolerance and leaves the output alone otherwise
\* (so at an error equal to the tolerance); no other step yields anything.
C4_YieldIffWithinTolerance ==
    [][\A w \in Workers :
          IF conf_pt[w] # NoFit /\ conf_pt'[w] = NoFit
          THEN LET g == Head(pending[w])
                   e == loaded[w][Len(loaded[w])]
               IN IF /\ conf_pt[w].kind = "finite"
                     /\ Abs(conf_pt[w].value - g.target[1]) < tolerance
                  THEN yielded'[w] = Append(yielded[w], TrackOf(e, g))
                  ELSE yielded'[w] = yielded[w]
          ELSE yielded'[w] = yielded[w]]_vars

\* C4 witness: a worker has yielded a track and is on a group whose fitted
\* pT is off the target by exactly the tolerance
C4_Witness ==
    \E w \in Workers :
        /\ yielded[w] # <<>>
        /\ pending[w] # <<>>
        /\ conf_pt[w].kind = "finite"
        /\ Abs(conf_pt[w].value - Head(pending[w]).target[1]) = tolerance

\* C7: a failed load is the last load of its worker and ends the worker's
\* stream with the error: from then on the worker loads nothing and yields
\* nothing, what it had yielded stays, and the step changes nothing of any
\* other worker; a worker that comes to the end of its sub-range has loaded
\* all of it.
C7_LoadFailureEndsStream ==
    /\ [](\A w \in Workers :
            /\ (failed[w] # {}) =>
                  /\ pc[w] = "load_error"
                  /\ failed[w] = {loaded[w][Len(loaded[w])]}
            /\ (pc[w] = "exhausted") =>
                  /\ failed[w] = {}
                  /\ loaded[w] = PyRange(iter_start[w], iter_end[w]))
    /\ [][\A w \in Workers :
            (pc[w] = "load_error") =>
               /\ pc'[w] = "load_error"
               /\ loaded'[w] = loaded[w]
               /\ yielded'[w] = yielded[w]]_vars
    /\ [][\A w \in Workers :
            (failed'[w] # failed[w]) =>
               /\ yielded'[w] = yielded[w]
               /\ \A v \in Workers \ {w} :
                     /\ pc'[v] = pc[v] /\ cur'[v] = cur[v]
                     /\ iter_start'[v] = iter_start[v]
                     /\ iter_end'[v] = iter_end[v]
                     /\ loaded'[v] = loaded[v] /\ failed'[v] = failed[v]
                     /\ pending'[v] = pending[v] /\ conf_pt'[v] = conf_pt[v]
                     /\ yielded'[v] = yielded[v]]_vars

\* C7 witness: of two workers over three ids, worker 0 failed on the first
\* of its two ids and never loaded the second, and worker 1 went through its
\* own id and yielded from it
C7_Witness ==
    /\ num_workers = 2 /\ end - start = 3
    /\ pc[0] = "load_error" /\ loaded[0] = <<start>> /\ iter_end[0] = start + 2
    /\ pc[1] = "exhausted" /\ loaded[1] = <<start + 2>> /\ yielded[1] # <<>>

\* C8: a degenerate fit is never fatal: no error of the fit leaves a stream.
C8_DegenerateFitNotFatal ==
    \A w \in Workers : pc[w] # "fit_error"

LoadsInOrder(w) ==
    /\ loaded[w] = PyRange(iter_start[w], cur[w])
    /\ \A k \in 1..Len(yielded[w]) : yielded[w][k].event \in SeqToSet(loaded[w])
    /\ (pc[w] = "exhausted") =>
          /\ loaded[w] = PyRange(iter_start[w], iter_end[w])
          /\ pending[w] = <<>>

\* C10 as stated: a worker loads its ids in ascending order, each once,
\* yields the tracks of an event before those of the next, has loaded its
\* whole sub-range when exhausted, and yields the tracks of one event in the
\* order in which their particles first appear in the joined rows.
C10_RowOrderWithinEvent ==
    \A w \in Workers : Started(w) =>
        /\ LoadsInOrder(w)
        /\ \A k \in 1..(Len(yielded[w]) - 1) :
              LET a == yielded[w][k]
                  b == yielded[w][k + 1]
              IN \/ a.event < b.event
                 \/ a.event = b.event /\ a.first < b.first

\* C10 amended: the same, but the tracks of one event are yielded in
\* ascending particle_id order, whatever the order of the joined rows.
C10_KeyOrderWithinEvent ==
    \A w \in Workers : Started(w) =>
        /\ LoadsInOrder(w)
        /\ \A k \in 1..(Len(yielded[w]) - 1) :
              LET a == yielded[w][k]
                  b == yielded[w][k + 1]
              IN \/ a.event < b.event
                 \/ a.event = b.event /\ a.particle_id < b.particle_id

\* C10 witness: an exhausted worker has yielded from two events, and from
\* one of them two tracks whose particles appear in the joined rows in the
\* other order
C10_Witness ==
    \E w \in Workers :
        /\ pc[w] = "exhausted"
        /\ Len(loaded[w]) >= 2
        /\ \E k \in 1..(Len(yielded[w]) - 1) :
              /\ yielded[w][k].event = yielded[w][k + 1].event
              /\ yielded[w][k].first > yielded[w][k + 1].first
        /\ \E j \in 1..Len(yielded[w]) : yielded[w][j].event # yielded[w][1].event

----------------------------------------------------------------------------
(* The collate functions.  A tensor is its shape (a sequence of sizes); a   *)
(* mask is its entries.                                                     *)

MaxBatch == 3      \* a batch holds 1..MaxBatch samples
MaxSeqLen == 3     \* a sample holds 1..MaxSeqLen hits

RECURSIVE SeqMax(_)
SeqMax(s) == IF s = <<>> THEN 0 ELSE Max(Head(s), SeqMax(Tail(s)))

Repeat(v, n) == [k \in 1..n |-> v]

\* lines 94-97: a sample of _TrackIterable with n hits.  pt_shape is the
\* shape of event.particles.pt, which the event generator decides.
ToySample(n, pt_shape) ==
    [x |-> <<n, 2>>, mask |-> Repeat(TRUE, n), target |-> <<1>> \o pt_shape]

\* lines 259-260, 268-269: a sample of TrackMLIterableDataset2 with n hits
TMLSample(n) ==
    [x |-> <<n, 3>>, mask |-> Repeat(TRUE, n), target |-> <<2>>]

\* pad_sequence(tensors, batch_first=True): the shape of the result
PadSequenceShape(shapes) ==
    <<Len(shapes), SeqMax([k \in 1..Len(shapes) |-> shapes[k][1]])>>
    \o Tail(shapes[1])

\* pad_sequence with the rows filled up by True
PadSequenceWithOnes(seqs, padding_value) ==
    LET longest == SeqMax([k \in 1..Len(seqs) |-> Len(seqs[k])])
    IN [k \in 1..Len(seqs) |->
           seqs[k] \o Repeat(TRUE, longest - Len(seqs[k]))]

\* pad_sequence(tensors, batch_first=True, padding_value) on 1-d tensors:
\* the entries of the result
PadSequence(seqs, padding_value) ==
    LET longest == SeqMax([k \in 1..Len(seqs) |-> Len(seqs[k])])
    IN [k \in 1..Len(seqs) |->
           seqs[k] \o Repeat(padding_value, longest - Len(seqs[k]))]

\* torch.cat(tensors) along dim 0: the shape of the result
CatShape(shapes) ==
    <<SeqSum([k \in 1..Len(shapes) |-> shapes[k][1]])>> \o Tail(shapes[1])

\* tensor.squeeze(): every dimension of size 1 is dropped
SqueezeShape(shape) == LET keep(d) == d # 1 IN SelectSeq(shape, keep)

\* torch.stack(tensors, dim=0): the shape of the result
StackShape(shapes) == <<Len(shapes)>> \o shapes[1]

Column(ls, field) == [k \in 1..Len(ls) |-> ls[k][field]]

\* lines 192-196: ToyTrackDataModule.collate_fn; 0 as a bool is False
collate_fn(ls) ==
    [done |-> TRUE,
     x |-> PadSequenceShape(Column(ls, "x")),
     mask |-> PadSequence(Column(ls, "mask"), FALSE),
     target |-> SqueezeShape(CatShape(Column(ls, "target")))]

\* lines 343-350: TrackMLDataModule.TMLcollate_fn
TMLcollate_fn(ls) ==
    [done |-> TRUE,
     x |-> PadSequenceShape(Column(ls, "x")),
     mask |-> PadSequence(Column(ls, "mask"), FALSE),
     target |-> StackShape(Column(ls, "target"))]

\* the DataLoader takes the next sample of its dataset into the batch
Pull ==
    /\ ~out.done
    /\ Len(batch) < MaxBatch
    /\ \E n \in 1..MaxSeqLen :
          batch' = Append(batch,
                          IF source.module = "TrackML" THEN TMLSample(n)
                          ELSE ToySample(n, source.pt_shape))
    /\ UNCHANGED <<files, start, end, ctor, streamVars, asmVars, source, out>>

\* the DataLoader hands the batch (full, or the last of the epoch) to the
\* data module's collate function
Collate ==
    /\ ~out.done
    /\ batch # <<>>
    /\ out' = IF source.module = "TrackML" THEN TMLcollate_fn(batch)
              ELSE collate_fn(batch)
    /\ UNCHANGED <<files, start, end, ctor, streamVars, asmVars, source, batch>>

Sources == {[module |-> "TrackML", pt_shape |-> <<>>],
            [module |-> "ToyTrack", pt_shape |-> <<>>],
            [module |-> "ToyTrack", pt_shape |-> <<1>>]}

InitBatch ==
    /\ source \in Sources
    /\ batch = <<>>
    /\ out = NoOut
    /\ files = {} /\ ctor = "ready" /\ start = 0 /\ end = 0 /\ num_workers = 0
    /\ NoStream /\ NoAssembly

NextBatch == Pull \/ Collate

SpecBatch == InitBatch /\ [][NextBatch]_vars

SampleLen(i) == batch[i].x[1]

MaxLenOfBatch == SeqMax([i \in 1..Len(batch) |-> SampleLen(i)])

\* C6: the mask of a batch of K samples has K rows of max(L) entries, row i
\* is true at j exactly when j is one of the first L_i places, and the padded
\* positions have the same first two dimensions.
C6_MaskMarksRealHits ==
    out.done =>
        /\ Len(out.mask) = Len(batch)
        /\ \A i \in 1..Len(batch) :
              /\ Len(out.mask[i]) = MaxLenOfBatch
              /\ \A j \in 1..MaxLenOfBatch : out.mask[i][j] <=> (j <= SampleLen(i))
        /\ out.x[1] = Len(batch)
        /\ out.x[2] = MaxLenOfBatch

\* C6 witness: a collated batch of samples of different lengths
C6_Witness ==
    /\ out.done
    /\ Len(batch) >= 2
    /\ \E i \in 1..Len(batch) : SampleLen(i) < MaxLenOfBatch

\* C9: a batch of B samples comes out with positions [B, max_len, coord_dim],
\* mask [B, max_len] and target [B, 2] (archive source) or [B] (synthetic
\* source), for every B >= 1.
C9_BatchDimensionKept ==
    out.done =>
        /\ out.x = <<Len(batch), MaxLenOfBatch, batch[1].x[2]>>
        /\ Len(out.mask) = Len(batch)
        /\ \A i \in 1..Len(batch) : Len(out.mask[i]) = MaxLenOfBatch
        /\ out.target = IF source.module = "TrackML"
                        THEN <<Len(batch), 2>>
                        ELSE <<Len(batch)>>

====
